---- MODULE Spec2Model ----
(***************************************************************************)
(* Page-view telemetry of appinsights-rs: PageViewTelemetry, its accessors *)
(* and the conversion (TelemetryContext, PageViewTelemetry) -> Envelope of *)
(* src/appinsights/src/telemetry/page_view.rs.                             *)
(*                                                                         *)
(* Option<T> is a sequence of length at most one: None is << >> and        *)
(* Some(x) is <<x>>.  A map (Properties, ContextTags, Measurements,        *)
(* BTreeMap) is a function whose domain is its key set.  A DateTime<Utc>   *)
(* is a record of its calendar fields and its nanosecond part, a Uri is a  *)
(* record of its components, a Uuid is its sequence of 16 bytes.           *)
(***************************************************************************)
EXTENDS Integers, Sequences, FiniteSets, TLC

VARIABLES now, context, telemetry, envelope, call, ops

vars == <<now, context, telemetry, envelope, call, ops>>

\* Number of state-changing calls (time::set, new, insert) explored in a behaviour.
MaxOps == 3

----------------------------------------------------------------------------
\* Option<T>

None == << >>

Some(x) == <<x>>

\* Maps

EmptyMap == << >>

\* BTreeMap::insert(k, v): the key is added, or its value replaced.
MapInsert(m, k, v) == [x \in (DOMAIN m) \cup {k} |-> IF x = k THEN v ELSE m[x]]

\* ContextTags::combine / Properties::combine (spec 4.1): a copy of base in
\* which every key of overlay is inserted or overwritten with overlay's value.
Combine(base, overlay) ==
    [k \in (DOMAIN base) \cup (DOMAIN overlay) |->
        IF k \in DOMAIN overlay THEN overlay[k] ELSE base[k]]

\* From<ContextTags | Properties | Measurements> for BTreeMap: the wrapped map.
MapInto(m) == [k \in DOMAIN m |-> m[k]]

----------------------------------------------------------------------------
\* Decimal and hexadecimal rendering

DecChars == <<"0", "1", "2", "3", "4", "5", "6", "7", "8", "9">>

HexChars == <<"0", "1", "2", "3", "4", "5", "6", "7", "8", "9",
              "a", "b", "c", "d", "e", "f">>

Dec(d) == DecChars[d + 1]

Hex(d) == HexChars[d + 1]

\* {:02}, {:03}, {:04} of a natural number below 100, 1000, 10000
Pad2(n) == Dec((n \div 10) % 10) \o Dec(n % 10)

Pad3(n) == Dec((n \div 100) % 10) \o Pad2(n % 100)

Pad4(n) == Dec((n \div 1000) % 10) \o Pad3(n % 1000)

\* {} of a natural number
RECURSIVE DecNat(_)
DecNat(n) == IF n < 10 THEN Dec(n) ELSE DecNat(n \div 10) \o Dec(n % 10)

\* The year of a date: four digits for 0..=9999, otherwise {:+05}, a sign
\* followed by at least four digits.
YearToString(y) ==
    IF y >= 0 /\ y <= 9999 THEN Pad4(y)
    ELSE LET a == IF y < 0 THEN 0 - y ELSE y
         IN  (IF y < 0 THEN "-" ELSE "+")
             \o (IF a < 1000 THEN Pad4(a) ELSE DecNat(a))

\* {:02x} of a byte
HexByte(b) == Hex((b \div 16) % 16) \o Hex(b % 16)

RECURSIVE HexBytes(_)
HexBytes(bs) == IF bs = << >> THEN "" ELSE HexByte(Head(bs)) \o HexBytes(Tail(bs))

\* DateTime<Utc>::to_rfc3339_opts(SecondsFormat::Millis, true): the date and
\* the time of day, the fraction truncated to milliseconds and written with
\* three digits, and "Z" for the UTC offset.  A year outside 0..=9999 is
\* written with its sign.  A leap second is held as a nanosecond part of
\* 1_000_000_000 or more and is written as second 60.
ToRfc3339Millis(t) ==
    LET sec  == t.second + (t.nano \div 1000000000)
        frac == t.nano % 1000000000
    IN  YearToString(t.year) \o "-" \o Pad2(t.month) \o "-" \o Pad2(t.day) \o "T"
        \o Pad2(t.hour) \o ":" \o Pad2(t.minute) \o ":" \o Pad2(sec)
        \o "." \o Pad3(frac \div 1000000) \o "Z"

\* Uri::to_string(): scheme "://" when there is a scheme, the authority when
\* there is one, the path, and "?" query when there is a query.
UriToString(u) ==
    (IF u.scheme = None THEN "" ELSE u.scheme[1] \o "://")
    \o (IF u.authority = None THEN "" ELSE u.authority[1])
    \o u.path
    \o (IF u.query = None THEN "" ELSE "?" \o u.query[1])

\* Uuid::as_hyphenated().to_string(): lower-case hexadecimal in groups of
\* 8-4-4-4-12 digits.
AsHyphenated(id) ==
    HexBytes(SubSeq(id, 1, 4)) \o "-" \o HexBytes(SubSeq(id, 5, 6)) \o "-"
    \o HexBytes(SubSeq(id, 7, 8)) \o "-" \o HexBytes(SubSeq(id, 9, 10)) \o "-"
    \o HexBytes(SubSeq(id, 11, 16))

\* Duration::to_string() (spec 4.3 step 5, "wire duration string"):
\* d.hh:mm:ss.fffffff of a duration held as whole seconds.
DurationToString(d) ==
    Dec((d \div 86400) % 10) \o "." \o Pad2((d \div 3600) % 24) \o ":"
    \o Pad2((d \div 60) % 60) \o ":" \o Pad2(d % 60) \o ".0000000"

----------------------------------------------------------------------------
\* Input domains

Keys == {"test", "no-write"}

Values == {"ok", "fail"}

MeasureKeys == {"latency", "test"}

\* 200.0 and 115.0
MeasureValues == {200, 115}

IKeys == {"instrumentation", ""}

Names == {"page updated", "check github repo page"}

Uris == {
    [scheme |-> Some("https"), authority |-> Some("example.com"),
     path |-> "/main.html", query |-> None],
    [scheme |-> None, authority |-> None,
     path |-> "/search", query |-> Some("q=1")] }

\* Utc.ymd(2019, 1, 2).and_hms_milli(3, 4, 5, 700) and (..., 800) of the tests,
\* an instant with a sub-millisecond part, and one past the year 9999.
T700 == [year |-> 2019, month |-> 1, day |-> 2, hour |-> 3, minute |-> 4,
         second |-> 5, nano |-> 700000000]

T800 == [year |-> 2019, month |-> 1, day |-> 2, hour |-> 3, minute |-> 4,
         second |-> 5, nano |-> 800000000]

TSub == [year |-> 2020, month |-> 2, day |-> 29, hour |-> 23, minute |-> 59,
         second |-> 59, nano |-> 999999999]

TFar == [year |-> 10000, month |-> 1, day |-> 2, hour |-> 3, minute |-> 4,
         second |-> 5, nano |-> 800000000]

Times == {T700, T800, TSub, TFar}

\* The (name, uri) pairs new is called with
Pages == {<<"page updated",
            [scheme |-> Some("https"), authority |-> Some("example.com"),
             path |-> "/main.html", query |-> None]>>,
          <<"check github repo page",
            [scheme |-> None, authority |-> None,
             path |-> "/search", query |-> Some("q=1")]>>}

Uuid1 == <<1, 35, 69, 103, 137, 171, 205, 239, 0, 16, 254, 220, 186, 152, 118, 84>>

Uuid2 == <<0, 0, 0, 0, 0, 0, 0, 0, 0, 0, 0, 0, 0, 0, 0, 0>>

Uuids == {Uuid1, Uuid2}

Durations == {0, 3723}

\* The maps over the keys ks with values in vs
MapsOver(ks, vs) == UNION {[d -> vs] : d \in SUBSET ks}

----------------------------------------------------------------------------
\* time::now(): the process-wide time source (spec 6), which time::set
\* overrides.
TimeNow == now

\* TelemetryContext::new(i_key, tags, properties)
TelemetryContextNew(i_key, tags, properties) ==
    [i_key |-> i_key, tags |-> tags, properties |-> properties]

\* Variant: the duration starts as a zero duration instead of None.
PageViewTelemetryNewZeroDuration(name, uri) ==
    [id           |-> None,
     name         |-> name,
     uri          |-> uri,
     duration     |-> Some(0),
     timestamp    |-> TimeNow,
     properties   |-> EmptyMap,
     tags         |-> EmptyMap,
     measurements |-> EmptyMap]

\* PageViewTelemetry::new(name, uri)
PageViewTelemetryNew(name, uri) ==
    [id           |-> None,
     name         |-> name,
     uri          |-> uri,
     duration     |-> None,
     timestamp    |-> TimeNow,
     properties   |-> EmptyMap,
     tags         |-> EmptyMap,
     measurements |-> EmptyMap]

\* Variant: the insertion also reaches the tags.
PropertiesMutInsertAlsoTags(t, k, v) ==
    [t EXCEPT !.properties = MapInsert(@, k, v), !.tags = MapInsert(@, k, v)]

\* telemetry.properties_mut().insert(k, v)
PropertiesMutInsert(t, k, v) == [t EXCEPT !.properties = MapInsert(@, k, v)]

\* telemetry.tags_mut().insert(k, v)
TagsMutInsert(t, k, v) == [t EXCEPT !.tags = MapInsert(@, k, v)]

\* telemetry.measurements_mut().insert(k, v)
MeasurementsMutInsert(t, k, v) == [t EXCEPT !.measurements = MapInsert(@, k, v)]

\* context.properties_mut().insert(k, v)
ContextPropertiesMutInsert(c, k, v) == [c EXCEPT !.properties = MapInsert(@, k, v)]

\* context.tags_mut().insert(k, v)
ContextTagsMutInsert(c, k, v) == [c EXCEPT !.tags = MapInsert(@, k, v)]

\* Variant: the time of the conversion, read from the time source.
EnvelopeTimeAtConversion(t) == ToRfc3339Millis(TimeNow)

\* time: telemetry.timestamp.to_rfc3339_opts(SecondsFormat::Millis, true)
EnvelopeTime(t) == ToRfc3339Millis(t.timestamp)

\* Variant: an empty instrumentation key is left out.
EnvelopeIKeyOmitEmpty(c) == IF c.i_key = "" THEN None ELSE Some(c.i_key)

\* i_key: Some(context.i_key)
EnvelopeIKey(c) == Some(c.i_key)

\* Variant: the operands of combine exchanged, the context's value winning.
EnvelopeTagsContextWins(c, t) == Some(MapInto(Combine(t.tags, c.tags)))

\* Variant: an empty merge result is left out.
EnvelopeTagsOmitEmpty(c, t) ==
    IF Combine(c.tags, t.tags) = EmptyMap THEN None
    ELSE Some(MapInto(Combine(c.tags, t.tags)))

\* tags: Some(ContextTags::combine(context.tags, telemetry.tags).into())
EnvelopeTags(c, t) == Some(MapInto(Combine(c.tags, t.tags)))

\* duration: telemetry.duration.map(|duration| duration.to_string())
PayloadDuration(t) ==
    IF t.duration = None THEN None ELSE Some(DurationToString(t.duration[1]))

\* Variant: the id written without hyphens (as_simple).
PayloadIdSimple(t) == IF t.id = None THEN "" ELSE HexBytes(t.id[1])

\* Variant: a missing id replaced by one made at the conversion, here from
\* the time source.
PayloadIdGenerated(t) ==
    IF t.id = None THEN Pad3((TimeNow.nano \div 1000000) % 1000)
    ELSE AsHyphenated(t.id[1])

\* id: telemetry.id.map(|id| id.as_hyphenated().to_string()).unwrap_or_default()
PayloadId(t) == IF t.id = None THEN "" ELSE AsHyphenated(t.id[1])

\* Variant: the operands of combine exchanged, the context's value winning.
PayloadPropertiesContextWins(c, t) ==
    Some(MapInto(Combine(t.properties, c.properties)))

\* properties: Some(Properties::combine(context.properties, telemetry.properties).into())
PayloadProperties(c, t) == Some(MapInto(Combine(c.properties, t.properties)))

\* Variant: the default (empty) measurements instead of the page view's.
PayloadMeasurementsDefault(t) == Some(EmptyMap)

\* measurements: Some(telemetry.measurements.into())
PayloadMeasurements(t) == Some(MapInto(t.measurements))

\* Envelope::from((context, telemetry)).  data is Some(Base::Data(
\* Data::PageViewData(..))), held as the PageViewData record under its kind.
EnvelopeFrom(c, t) ==
    [name  |-> "Microsoft.ApplicationInsights.PageView",
     time  |-> EnvelopeTime(t),
     i_key |-> EnvelopeIKey(c),
     tags  |-> EnvelopeTags(c, t),
     data  |-> Some(
        [kind         |-> "PageViewData",
         name         |-> t.name,
         url          |-> Some(UriToString(t.uri)),
         duration     |-> PayloadDuration(t),
         referrer_uri |-> None,
         id           |-> PayloadId(t),
         properties   |-> PayloadProperties(c, t),
         measurements |-> PayloadMeasurements(t)])]

----------------------------------------------------------------------------
\* The calls of a client: the clock is set, the context and the page view are
\* filled, the pair is converted.  call is the call just made; envelope is
\* None until the pair (context, telemetry) has been converted.

Init ==
    /\ now \in Times
    /\ \E k \in IKeys : context = TelemetryContextNew(k, EmptyMap, EmptyMap)
    /\ \E p \in Pages :
          /\ telemetry = PageViewTelemetryNew(p[1], p[2])
          /\ call = <<"new", p[1], p[2]>>
    /\ envelope = None
    /\ ops = 0

\* time::set(t)
TimeSet(t) ==
    /\ ops < MaxOps
    /\ now' = t
    /\ call' = <<"time_set", t>>
    /\ ops' = ops + 1
    /\ UNCHANGED <<context, telemetry, envelope>>

\* let mut telemetry = PageViewTelemetry::new(n, u)
New(n, u) ==
    /\ ops < MaxOps
    /\ telemetry' = PageViewTelemetryNew(n, u)
    /\ envelope' = None
    /\ call' = <<"new", n, u>>
    /\ ops' = ops + 1
    /\ UNCHANGED <<now, context>>

PropertiesInsert(k, v) ==
    /\ ops < MaxOps
    /\ envelope = None
    /\ telemetry' = PropertiesMutInsert(telemetry, k, v)
    /\ call' = <<"properties_insert", k, v>>
    /\ ops' = ops + 1
    /\ UNCHANGED <<now, context, envelope>>

TagsInsert(k, v) ==
    /\ ops < MaxOps
    /\ envelope = None
    /\ telemetry' = TagsMutInsert(telemetry, k, v)
    /\ call' = <<"tags_insert", k, v>>
    /\ ops' = ops + 1
    /\ UNCHANGED <<now, context, envelope>>

MeasurementsInsert(k, v) ==
    /\ ops < MaxOps
    /\ envelope = None
    /\ telemetry' = MeasurementsMutInsert(telemetry, k, v)
    /\ call' = <<"measurements_insert", k, v>>
    /\ ops' = ops + 1
    /\ UNCHANGED <<now, context, envelope>>

ContextPropertiesInsert(k, v) ==
    /\ ops < MaxOps
    /\ envelope = None
    /\ context' = ContextPropertiesMutInsert(context, k, v)
    /\ call' = <<"context_properties_insert", k, v>>
    /\ ops' = ops + 1
    /\ UNCHANGED <<now, telemetry, envelope>>

ContextTagsInsert(k, v) ==
    /\ ops < MaxOps
    /\ envelope = None
    /\ context' = ContextTagsMutInsert(context, k, v)
    /\ call' = <<"context_tags_insert", k, v>>
    /\ ops' = ops + 1
    /\ UNCHANGED <<now, telemetry, envelope>>

\* let envelop = Envelope::from((context, telemetry)); made again on an
\* equal pair once an envelope exists, which call records.
Convert ==
    /\ envelope' = Some(EnvelopeFrom(context, telemetry))
    /\ call' = <<"from", envelope # None>>
    /\ UNCHANGED <<now, context, telemetry, ops>>

Next ==
    \/ \E t \in Times : TimeSet(t)
    \/ \E p \in Pages : New(p[1], p[2])
    \/ \E k \in Keys, v \in Values : PropertiesInsert(k, v)
    \/ \E k \in Keys, v \in Values : TagsInsert(k, v)
    \/ \E k \in MeasureKeys, v \in MeasureValues : MeasurementsInsert(k, v)
    \/ \E k \in Keys, v \in Values : ContextPropertiesInsert(k, v)
    \/ \E k \in Keys, v \in Values : ContextTagsInsert(k, v)
    \/ Convert

Spec == Init /\ [][Next]_vars

----------------------------------------------------------------------------
\* The conversion over the values of its argument types: every field of the
\* pair is drawn from its domain, the correlation id and the duration
\* included, and the pair is converted.

SmallMaps(ks, vs) == MapsOver(ks \cap {"test"}, vs)

InitFrom ==
    /\ now = T700
    /\ context \in [i_key : IKeys,
                    tags : SmallMaps(Keys, Values),
                    properties : SmallMaps(Keys, Values)]
    /\ telemetry \in [id : {None} \cup {Some(u) : u \in Uuids},
                      name : Names,
                      uri : Uris,
                      duration : {None} \cup {Some(d) : d \in Durations},
                      timestamp : Times,
                      properties : SmallMaps(Keys, Values),
                      tags : SmallMaps(Keys, Values),
                      measurements : SmallMaps(MeasureKeys, MeasureValues)]
    /\ envelope = None
    /\ call = <<"init">>
    /\ ops = 0

NextFrom == Convert

SpecFrom == InitFrom /\ [][NextFrom]_vars

----------------------------------------------------------------------------
\* Properties

Converted == envelope # None

Env == envelope[1]

Payload == envelope[1].data[1]

\* m is the right-biased union of base and overlay, stated key by key
IsRightBiasedUnion(m, base, overlay) ==
    /\ \A k \in DOMAIN overlay : k \in DOMAIN m /\ m[k] = overlay[k]
    /\ \A k \in (DOMAIN base) \ (DOMAIN overlay) : k \in DOMAIN m /\ m[k] = base[k]
    /\ \A k \in DOMAIN m : k \in (DOMAIN base) \cup (DOMAIN overlay)

\* C1: the envelope's tags are the right-biased union of the context's tags
\* and the page view's tags: a page-view key maps to the page view's value
\* (also when the context holds it with another value), a key of the context
\* alone keeps the context's value, and no other key appears.
C1_TagsRightBiasedUnion ==
    Converted =>
        /\ Env.tags # None
        /\ IsRightBiasedUnion(Env.tags[1], context.tags, telemetry.tags)

\* The scenario of tests::it_overrides_tags_from_context, converted.
C1_Witness ==
    /\ Converted
    /\ context.tags = [k \in {"test", "no-write"} |->
                          IF k = "test" THEN "ok" ELSE "fail"]
    /\ telemetry.tags = [k \in {"no-write"} |-> "ok"]
    /\ Env.tags[1]["no-write"] = "ok"

\* C2: the payload's properties are the right-biased union of the context's
\* properties and the page view's properties: a key set on the page view
\* overrides the context's value, a key of the context alone keeps it, and no
\* other key appears.
C2_PropertiesRightBiasedUnion ==
    Converted =>
        /\ Payload.properties # None
        /\ IsRightBiasedUnion(Payload.properties[1], context.properties,
                              telemetry.properties)

\* The scenario of tests::it_overrides_properties_from_context, converted.
C2_Witness ==
    /\ Converted
    /\ context.properties = [k \in {"test", "no-write"} |->
                                IF k = "test" THEN "ok" ELSE "fail"]
    /\ telemetry.properties = [k \in {"no-write"} |-> "ok"]
    /\ Payload.properties[1]["no-write"] = "ok"

\* C3, as stated: the envelope's instrumentation key is present and equal to
\* the context's key when that key is non-empty, and absent when it is the
\* empty string.
C3_AbsentWhenEmpty ==
    Converted =>
        IF context.i_key # "" THEN Env.i_key = Some(context.i_key)
        ELSE Env.i_key = None

\* C3: the envelope's instrumentation key is always present and equal to the
\* context's instrumentation key, also when that key is the empty string.
C3_IKeyAlwaysPresent ==
    Converted => Env.i_key # None /\ Env.i_key[1] = context.i_key

\* A context with the empty instrumentation key, converted.
C3_Witness ==
    /\ Converted
    /\ context.i_key = ""
    /\ Env.i_key = Some("")

\* The time field is the page view's timestamp in UTC with three
\* fractional-second digits and a Z suffix: 24 characters for a year of
\* four digits, the sign and the further digits more otherwise.
C4_TimeRendered ==
    Converted =>
        /\ telemetry.timestamp.year \in 0..9999 => Len(Env.time) = 24
        /\ telemetry.timestamp = TFar => Env.time = "+10000-01-02T03:04:05.800Z"
        /\ telemetry.timestamp = T800 => Env.time = "2019-01-02T03:04:05.800Z"
        /\ telemetry.timestamp = T700 => Env.time = "2019-01-02T03:04:05.700Z"
        /\ telemetry.timestamp = TSub => Env.time = "2020-02-29T23:59:59.999Z"

\* new takes the timestamp from the time source; no other call changes it.
C4_TimestampFromConstruction ==
    /\ call'[1] = "new" => telemetry'.timestamp = now
    /\ call'[1] # "new" => telemetry'.timestamp = telemetry.timestamp

\* C4: the envelope's time is the timestamp the page view took from the time
\* source when it was constructed, whatever the time source says afterwards,
\* written in UTC with three fractional-second digits and a Z suffix:
\* 2019-01-02T03:04:05.800Z yields "2019-01-02T03:04:05.800Z".
C4_TimeIsConstructionTime ==
    [](C4_TimeRendered) /\ [][C4_TimestampFromConstruction]_vars

\* A page view constructed at ...05.800, converted after the time source moved.
C4_Witness ==
    /\ Converted
    /\ call[1] = "from"
    /\ telemetry.timestamp = T800
    /\ now # T800
    /\ Env.time = "2019-01-02T03:04:05.800Z"

\* C5: a page view with no correlation id converts to the payload id ""
\* (a string, present); a page view whose id is set converts to the
\* hyphenated lower-case form of that id.
C5_IdRendered ==
    Converted =>
        /\ telemetry.id = None => Payload.id = ""
        /\ telemetry.id = Some(Uuid1) =>
              Payload.id = "01234567-89ab-cdef-0010-fedcba987654"
        /\ telemetry.id = Some(Uuid2) =>
              Payload.id = "00000000-0000-0000-0000-000000000000"
        /\ telemetry.id # None => Len(Payload.id) = 36

\* A page view with its correlation id set, converted.
C5_Witness ==
    /\ Converted
    /\ telemetry.id = Some(Uuid1)
    /\ Payload.id = "01234567-89ab-cdef-0010-fedcba987654"

\* The payload's measurements are the page view's map, key by key.
C6_MeasurementsOwn ==
    Converted =>
        /\ Payload.measurements # None
        /\ DOMAIN Payload.measurements[1] = DOMAIN telemetry.measurements
        /\ \A k \in DOMAIN telemetry.measurements :
              Payload.measurements[1][k] = telemetry.measurements[k]

\* An insertion adds or replaces its key only; no other call but new changes
\* the measurements.
C6_InsertedStay ==
    /\ call'[1] = "measurements_insert" =>
          /\ DOMAIN telemetry'.measurements =
                (DOMAIN telemetry.measurements) \cup {call'[2]}
          /\ telemetry'.measurements[call'[2]] = call'[3]
          /\ \A k \in (DOMAIN telemetry.measurements) \ {call'[2]} :
                telemetry'.measurements[k] = telemetry.measurements[k]
    /\ call'[1] \notin {"measurements_insert", "new"} =>
          telemetry'.measurements = telemetry.measurements

\* C6: the payload's measurements are exactly the page view's measurements:
\* nothing of the context's tags or properties appears in them, and a
\* measurement inserted through measurements_mut stays, with its value, until
\* the conversion.
C6_MeasurementsOnlyFromPageView ==
    [](C6_MeasurementsOwn) /\ [][C6_InsertedStay]_vars

\* The context holds the key "test", the page view measured only "latency".
C6_Witness ==
    /\ Converted
    /\ "test" \in DOMAIN context.properties
    /\ "test" \in DOMAIN context.tags
    /\ telemetry.measurements = [k \in {"latency"} |-> 200]
    /\ Payload.measurements[1] = [k \in {"latency"} |-> 200]

\* While the pair stays converted, the envelope does not change.
C7_SameEnvelope ==
    (envelope # None /\ envelope' # None) => envelope' = envelope

\* C7: the conversion is deterministic: an equal (context, page view) pair
\* converted again, whatever the time source says by then, yields an equal
\* envelope; no clock is read and no identifier is generated.
C7_Deterministic == [][C7_SameEnvelope]_vars

\* The pair converted a second time, the time source not being what it was
\* when the page view was constructed.
C7_Witness ==
    /\ Converted
    /\ call = <<"from", TRUE>>
    /\ now # telemetry.timestamp

\* C8: PageViewTelemetry::new(name, uri) returns a page view with that name
\* and uri, empty properties, tags and measurements, no correlation id, no
\* duration, and the time source's current value as its timestamp.
C8_NewPageView ==
    call[1] = "new" =>
        /\ telemetry.name = call[2]
        /\ telemetry.uri = call[3]
        /\ telemetry.properties = EmptyMap
        /\ telemetry.tags = EmptyMap
        /\ telemetry.measurements = EmptyMap
        /\ telemetry.id = None
        /\ telemetry.duration = None
        /\ telemetry.timestamp = now
        /\ DOMAIN telemetry = {"id", "name", "uri", "duration", "timestamp",
                               "properties", "tags", "measurements"}

\* new called after the time source was set and the context filled.
C8_Witness ==
    /\ call[1] = "new"
    /\ ops = 3
    /\ context.tags # EmptyMap
    /\ telemetry.timestamp = TSub
    /\ telemetry.name = "page updated"

\* C9: the tags, properties and measurements of every envelope the conversion
\* produces are present, and are present empty maps when nothing was set.
C9_EmptyStaysPresent ==
    Converted =>
        /\ Env.tags # None
        /\ Payload.properties # None
        /\ Payload.measurements # None
        /\ (context.tags = EmptyMap /\ telemetry.tags = EmptyMap)
              => Env.tags = Some(EmptyMap)
        /\ (context.properties = EmptyMap /\ telemetry.properties = EmptyMap)
              => Payload.properties = Some(EmptyMap)
        /\ telemetry.measurements = EmptyMap
              => Payload.measurements = Some(EmptyMap)

\* Nothing set on the context or on the page view, converted.
C9_Witness ==
    /\ Converted
    /\ context.tags = EmptyMap /\ telemetry.tags = EmptyMap
    /\ context.properties = EmptyMap /\ telemetry.properties = EmptyMap
    /\ telemetry.measurements = EmptyMap
    /\ Env.tags = Some(EmptyMap)

\* An insertion leaves every field but its own container as it was.
C10_OnlyOwnContainer ==
    /\ call'[1] = "properties_insert" =>
          telemetry' = [telemetry EXCEPT !.properties = telemetry'.properties]
    /\ call'[1] = "tags_insert" =>
          telemetry' = [telemetry EXCEPT !.tags = telemetry'.tags]
    /\ call'[1] = "measurements_insert" =>
          telemetry' = [telemetry EXCEPT !.measurements = telemetry'.measurements]

\* No reachable page view has a correlation id or a duration.
C10_IdAndDurationUnset ==
    /\ telemetry.id = None
    /\ telemetry.duration = None
    /\ Converted => Payload.id = "" /\ Payload.duration = None

\* C10: an insertion through properties_mut, tags_mut or measurements_mut
\* changes only the container it is made on; the correlation id and the
\* duration stay unset, and every envelope has id "" and no duration.
C10_InsertionsFrame ==
    [](C10_IdAndDurationUnset) /\ [][C10_OnlyOwnContainer]_vars

\* One insertion on each of the three containers, then the conversion.
C10_Witness ==
    /\ Converted
    /\ telemetry.properties # EmptyMap
    /\ telemetry.tags # EmptyMap
    /\ telemetry.measurements # EmptyMap
    /\ Payload.id = ""
    /\ Payload.duration = None

====
